---- MODULE Spec2Model ----
(***************************************************************************)
(* A model of sbs_ondemand.py: the fetch-with-retry transport, the catalog *)
(* synchronisation into the sqlite store, the title lookup of download,    *)
(* the per-episode resolution tasks and their fan-out over a               *)
(* multiprocessing.Pool.                                                   *)
(*                                                                         *)
(* Text is modelled as a sequence of one-character strings, so that        *)
(* lower-casing, substring matching and the trailing-segment slice are     *)
(* computed and not assumed.  Python's None is the empty sequence <<>> in  *)
(* a "value" field, a returned body b is <<b>>.                            *)
(***************************************************************************)
EXTENDS Integers, Sequences, FiniteSets, TLC

VARIABLES
    pc,         \* position of the running process ("exited" when none runs)
    argv,       \* the parsed command line of the running process
    exit_status,\* <<status>> of the last process, <<>> while one runs
    db,         \* the store as the open connection sees it
    committed,  \* the store as committed to sbs_ondemand.db
    sync,       \* loop state of synchronise
    hist,       \* history of the synchronise runs (for run-to-run comparison)
    dl,         \* local state of download: results, message, args
    pool,       \* the multiprocessing.Pool: task queue, workers, task status
    effects,    \* what the running process did: fetches, lookups, files
    probe       \* a call of a pure function: its input and its output

vars == <<pc, argv, exit_status, db, committed, sync, hist, dl, pool, effects, probe>>

----------------------------------------------------------------------------
(* Bounds of the model *)

\* number of movies in the upstream catalog
NumMovies == 12
\* number of episodes in the feed of the first program
NumEpisodes == 5
\* largest value of --download-threads
MaxThreads == 2
\* number of synchronise runs followed
MaxRuns == 2
\* longest variant playlist list
MaxVariants == 3
\* longest upstream id string
MaxIdLen == 4

(* Program constants *)
MAX_RETRIES == 3
MAX_RESULTS == 10

----------------------------------------------------------------------------
(* Generic helpers *)

Min(a, b) == IF a < b THEN a ELSE b

\* s[a..b] on sequences, empty when a > b
Slice(s, a, b) == [i \in 1..(b - a + 1) |-> s[a + i - 1]]

\* s[:n]
Take(s, n) == Slice(s, 1, Min(n, Len(s)))

Range(s) == {s[i] : i \in DOMAIN s}

----------------------------------------------------------------------------
(* get_with_retry, lines 43-64 *)

\* What one c.perform() can give: a transfer error (pycurl.error is raised by
\* perform), or a response with a status code and a body.
RESPONSES ==
    { [curl_error |-> FALSE, code |-> 200, body |-> "b1"],
      [curl_error |-> FALSE, code |-> 200, body |-> "b2"],
      [curl_error |-> FALSE, code |-> 503, body |-> "unavailable"],
      [curl_error |-> TRUE,  code |-> 0,   body |-> ""] }

\* the while loop of lines 50-61; resps[k] is what the k-th perform gives
RECURSIVE retry_loop(_, _, _)
retry_loop(resps, retries_left, attempt) ==
    IF retries_left > 0
    THEN LET r == resps[attempt] IN
         IF r.curl_error
         THEN [kind |-> "raise", value |-> <<>>, attempts |-> attempt]
         ELSE IF r.code = 200
              THEN [kind |-> "return", value |-> <<r.body>>, attempts |-> attempt]
              ELSE retry_loop(resps, retries_left - 1, attempt + 1)
    ELSE [kind |-> "return", value |-> <<>>, attempts |-> attempt - 1]

get_with_retry(resps) == retry_loop(resps, MAX_RETRIES, 1)

----------------------------------------------------------------------------
(* Text *)

\* str.lower() and SQL LOWER() on one character
LowerChar(c) ==
    CASE c = "E" -> "e"
      [] c = "F" -> "f"
      [] c = "P" -> "p"
      [] c = "T" -> "t"
      [] OTHER -> c

Lower(s) == [i \in DOMAIN s |-> LowerChar(s[i])]

\* the SQL operator  t LIKE p : % matches any run of characters, _ any one
\* character, every other character matches itself without regard to case
RECURSIVE Like(_, _)
Like(t, p) ==
    IF p = <<>> THEN t = <<>>
    ELSE IF Head(p) = "%"
         THEN Like(t, Tail(p)) \/ (t # <<>> /\ Like(Tail(t), p))
         ELSE /\ t # <<>>
              /\ (Head(p) = "_" \/ LowerChar(Head(p)) = LowerChar(Head(t)))
              /\ Like(Tail(t), Tail(p))

\* rfind as find: the position of the first '/'
rfind_first(s) ==
    IF \E i \in DOMAIN s : s[i] = "/"
    THEN CHOOSE i \in DOMAIN s : s[i] = "/" /\ \A j \in DOMAIN s : s[j] = "/" => i <= j
    ELSE 0

\* s.rfind('/') with positions counted from 1; 0 when there is no '/'
\* (Python gives the 0-based position, and -1 when there is none)
rfind(s) ==
    IF \E i \in DOMAIN s : s[i] = "/"
    THEN CHOOSE i \in DOMAIN s : s[i] = "/" /\ \A j \in DOMAIN s : s[j] = "/" => j <= i
    ELSE 0

\* s[s.rfind('/') + 1:], lines 109 and 125
trailing_segment(s) == Slice(s, rfind(s) + 1, Len(s))

DIGITS == <<"0", "1", "2", "3", "4", "5", "6", "7", "8", "9">>

DigitValue(c) == (CHOOSE k \in DOMAIN DIGITS : DIGITS[k] = c) - 1

\* the decimal text of a natural number
RECURSIVE Decimal(_)
Decimal(n) ==
    IF n < 10 THEN <<DIGITS[n + 1]>> ELSE Append(Decimal(n \div 10), DIGITS[(n % 10) + 1])

\* the integer sqlite stores in an INTEGER PRIMARY KEY column for a text
\* value made of digits (column affinity, lines 152 and 161)
RECURSIVE SqlInteger(_)
SqlInteger(s) ==
    IF s = <<>> THEN 0
    ELSE 10 * SqlInteger(Slice(s, 1, Len(s) - 1)) + DigitValue(s[Len(s)])

----------------------------------------------------------------------------
(* The upstream catalog, fixed while the model runs *)

\* Titles are built so that the fragments of FRAGMENTS match 0, 1, 2,
\* MAX_RESULTS, MAX_RESULTS + 1 and NumMovies stored titles.
MovieTitle(i) ==
    <<"F">> \o (IF i <= MAX_RESULTS THEN <<"T">> ELSE <<>>)
            \o (IF i <= MAX_RESULTS + 1 THEN <<"e">> ELSE <<>>)
            \o (IF i <= 2 THEN <<"w">> ELSE <<>>)
            \o (IF i = 1 THEN <<"o">> ELSE <<>>)

\* json.loads(r)['entries'] of the movie feed, range 1-n (line 182)
MovieEntries(n) ==
    [i \in 1..n |-> [title |-> MovieTitle(i),
                     id |-> <<"/", "v", "/">> \o Decimal(100 + i)]]

\* json.loads(r)['entries'] of video_programs/all (line 187)
ProgramEntries ==
    << [name |-> <<"P", "s">>, id |-> 201, type |-> "program_series"],
       [name |-> <<"P", "d">>, id |-> 202, type |-> "program"],
       [name |-> <<"P", "x">>, id |-> 203, type |-> "program_series"] >>

NumPrograms == Len(ProgramEntries)

\* json.loads(r)['entries'] of the episode feed of a program (line 108).
\* The second program lists an episode of the first one under another
\* title, once with a bare id.
EpisodeEntries(program_id) ==
    IF program_id = 201
    THEN [i \in 1..NumEpisodes |-> [title |-> <<"s", DIGITS[i + 1]>>,
                                    id |-> <<"/", "e", "/">> \o Decimal(300 + i)]]
    ELSE IF program_id = 202
    THEN << [title |-> <<"d", "1">>, id |-> Decimal(301)],
            [title |-> <<"d", "2">>, id |-> <<"/", "e", "/">> \o Decimal(401)] >>
    ELSE << [title |-> <<"x", "1">>, id |-> <<"a", "/", "b", "/">> \o Decimal(501)] >>

----------------------------------------------------------------------------
(* The transport as the callers see it *)

\* what a call of get_with_retry gives its caller: the body ("ok"), None
\* ("none"), or an exception of c.perform() leaving the function ("raise")
FetchOutcome(resps) ==
    LET r == get_with_retry(resps) IN
    IF r.kind = "raise" THEN "raise"
    ELSE IF r.value = <<>> THEN "none" ELSE "ok"

FETCH_OUTCOMES == {FetchOutcome(resps) : resps \in [1..MAX_RETRIES -> RESPONSES]}

----------------------------------------------------------------------------
(* The store: tables sbs_titles and sbs_tv_episodes, lines 146-169 *)

EmptyDb == [titles |-> {}, episodes |-> {}]

\* INSERT OR IGNORE INTO sbs_titles VALUES(?, ?), lines 196 and 209
insert_title(d, id, title) ==
    IF \E r \in d.titles : r.title_id = id
    THEN d
    ELSE [d EXCEPT !.titles = @ \cup {[title_id |-> id, title |-> title]}]

\* insert_episode with the values in the wrong order: the episode id lands
\* in the title_id column
insert_episode_swapped(d, id, title, title_id) ==
    IF \E r \in d.episodes : r.episode_id = id
    THEN d
    ELSE [d EXCEPT !.episodes = @ \cup
             {[episode_id |-> id, title |-> title, title_id |-> id]}]

\* insert_episode as INSERT OR REPLACE: the stored row gives way
insert_or_replace_episode(d, id, title, title_id) ==
    [d EXCEPT !.episodes = {r \in @ : r.episode_id # id} \cup
        {[episode_id |-> id, title |-> title, title_id |-> title_id]}]

\* INSERT OR IGNORE INTO sbs_tv_episodes VALUES(?, ?, ?), lines 211-214
\* (sqlite does not enforce the FOREIGN KEY clause unless told to)
insert_episode(d, id, title, title_id) ==
    IF \E r \in d.episodes : r.episode_id = id
    THEN d
    ELSE [d EXCEPT !.episodes = @ \cup
             {[episode_id |-> id, title |-> title, title_id |-> title_id]}]

\* SBSOnDemandMovie.__init__, lines 121-125
SBSOnDemandMovie(data) ==
    [title |-> data.title, id |-> trailing_segment(data.id)]

\* the loop of lines 192-196 over the first n entries
RECURSIVE insert_movies(_, _, _)
insert_movies(d, entries, n) ==
    IF n = 0 THEN d
    ELSE LET m == SBSOnDemandMovie(entries[n]) IN
         insert_title(insert_movies(d, entries, n - 1), SqlInteger(m.id), m.title)

\* the episode list built by lines 107-114
program_episodes(entries) ==
    [k \in DOMAIN entries |-> [title |-> entries[k].title,
                               id |-> trailing_segment(entries[k].id)]]

NoProgram == [id |-> 0, title |-> <<>>, episodes |-> <<>>]

----------------------------------------------------------------------------
(* Initial state: no process runs, the store is empty *)

\* the value of exit_status while a process runs
Running == <<>>

NoArgs == [cmd |-> "", title |-> <<>>, output_dir |-> "", download_threads |-> 0]
NoSync == [i |-> 0, p |-> NoProgram, e |-> 0, error |-> ""]
NoHist == [runs |-> 0, fetched |-> {}, prev_fetched |-> {}, prev_db |-> EmptyDb]
NoDownload == [results |-> <<>>, listed |-> <<>>, ellipsis |-> FALSE, args |-> <<>>]
NoPool == [processes |-> 0, chunksize |-> 0, taskqueue |-> <<>>,
           workers |-> <<>>, status |-> <<>>]
NoEffects == [lookups |-> 0, fetches |-> {}, files |-> {}]
NoProbe == [fn |-> "", input |-> <<>>, output |-> <<>>, done |-> FALSE]

Init ==
    /\ pc = "exited"
    /\ argv = NoArgs
    /\ exit_status = <<0>>
    /\ db = EmptyDb
    /\ committed = EmptyDb
    /\ sync = NoSync
    /\ hist = NoHist
    /\ dl = NoDownload
    /\ pool = NoPool
    /\ effects = NoEffects
    /\ probe = NoProbe

\* an exception nobody catches leaves synchronise and main: __exit__ closes
\* the connection (line 144) without a commit and the interpreter exits with
\* status 1
Crash(error) ==
    /\ pc' = "exited"
    /\ exit_status' = <<1>>
    /\ db' = committed
    /\ sync' = [sync EXCEPT !.error = error]

\* the exception that follows a call of get_with_retry that gave no body:
\* the one perform raised, or the one json.loads(None) raises
ErrorOf(outcome) == IF outcome = "raise" THEN "pycurl.error" ELSE "TypeError"

----------------------------------------------------------------------------
(* sync: main, lines 347-351, and synchronise, lines 189-216 *)

\* a new process: lines 361-363 up to the call of main
start ==
    /\ pc = "exited"
    /\ pc' = "main"
    /\ exit_status' = Running
    /\ argv' = NoArgs
    /\ sync' = NoSync
    /\ dl' = NoDownload
    /\ pool' = NoPool
    /\ effects' = NoEffects
    /\ UNCHANGED <<db, committed, hist, probe>>

\* main with the sync command, up to the first fetch of synchronise
main_sync ==
    /\ pc = "main"
    /\ hist.runs < MaxRuns
    /\ pc' = "sync_movies"
    /\ argv' = [NoArgs EXCEPT !.cmd = "sync"]
    /\ hist' = [runs |-> hist.runs + 1, fetched |-> {},
                prev_fetched |-> hist.fetched, prev_db |-> db]
    /\ UNCHANGED <<exit_status, db, committed, sync, dl, pool, effects, probe>>

\* movie_list (lines 172-182) and the movie loop with its commit (192-198)
synchronise_movies ==
    /\ pc = "sync_movies"
    /\ \E first \in FETCH_OUTCOMES, second \in FETCH_OUTCOMES :
         IF first = "ok" /\ second = "ok"
         THEN LET total_results == NumMovies
                  d == insert_movies(db, MovieEntries(total_results), total_results)
              IN /\ db' = d
                 /\ committed' = d
                 /\ hist' = [hist EXCEPT !.fetched = @ \cup {0}]
                 /\ pc' = "sync_program_list"
                 /\ UNCHANGED <<exit_status, sync>>
         ELSE \* json.loads(None) at line 179 or 182, or the exception of perform
              /\ Crash(ErrorOf(IF first # "ok" THEN first ELSE second))
              /\ UNCHANGED <<committed, hist>>
    /\ UNCHANGED <<argv, dl, pool, effects, probe>>

\* program_list, lines 185-187, called at line 200
synchronise_program_list ==
    /\ pc = "sync_program_list"
    /\ \E r \in FETCH_OUTCOMES :
         IF r = "ok"
         THEN /\ pc' = "sync_program"
              /\ sync' = [NoSync EXCEPT !.i = 1]
              /\ UNCHANGED <<exit_status, db>>
         ELSE /\ Crash(ErrorOf(r))
    /\ UNCHANGED <<argv, committed, hist, dl, pool, effects, probe>>

\* the end of the loop of line 200: synchronise returns, main ends
synchronise_return ==
    /\ pc = "sync_program"
    /\ sync.i > NumPrograms
    /\ pc' = "exited"
    /\ exit_status' = <<0>>
    /\ db' = committed
    /\ UNCHANGED <<argv, committed, sync, hist, dl, pool, effects, probe>>

\* one turn of the loop up to the first insert: SBSOnDemandTVProgram(program),
\* lines 82-114, under the try of lines 202-205
synchronise_program ==
    /\ pc = "sync_program"
    /\ sync.i <= NumPrograms
    /\ LET data == ProgramEntries[sync.i] IN
       \E r \in FETCH_OUTCOMES, feed \in FETCH_OUTCOMES :
         IF r = "none"
         THEN \* RuntimeError, caught at line 204: continue
              /\ sync' = [sync EXCEPT !.i = @ + 1]
              /\ pc' = "sync_program"
              /\ UNCHANGED <<exit_status, db, hist>>
         ELSE IF r = "raise" \/ feed # "ok"
         THEN \* pycurl.error, or json.loads(None) at line 108: not caught
              /\ Crash(ErrorOf(IF r = "raise" THEN r ELSE feed))
              /\ UNCHANGED hist
         ELSE /\ sync' = [sync EXCEPT
                     !.p = [id |-> data.id, title |-> data.name,
                            episodes |-> program_episodes(EpisodeEntries(data.id))],
                     !.e = 0]
              /\ hist' = [hist EXCEPT !.fetched = @ \cup {sync.i}]
              /\ pc' = "insert_title"
              /\ UNCHANGED <<exit_status, db>>
    /\ UNCHANGED <<argv, committed, dl, pool, effects, probe>>

\* line 209
synchronise_insert_title ==
    /\ pc = "insert_title"
    /\ db' = insert_title(db, sync.p.id, sync.p.title)
    /\ sync' = [sync EXCEPT !.e = 1]
    /\ pc' = "insert_episode"
    /\ UNCHANGED <<argv, exit_status, committed, hist, dl, pool, effects, probe>>

\* one turn of the loop of lines 210-214
synchronise_insert_episode ==
    /\ pc = "insert_episode"
    /\ sync.e <= Len(sync.p.episodes)
    /\ LET episode == sync.p.episodes[sync.e] IN
       db' = insert_episode(db, SqlInteger(episode.id), episode.title, sync.p.id)
    /\ sync' = [sync EXCEPT !.e = @ + 1]
    /\ UNCHANGED <<pc, argv, exit_status, committed, hist, dl, pool, effects, probe>>

\* line 216, and on to the next program
synchronise_commit ==
    /\ pc = "insert_episode"
    /\ sync.e > Len(sync.p.episodes)
    /\ committed' = db
    /\ sync' = [NoSync EXCEPT !.i = sync.i + 1]
    /\ pc' = "sync_program"
    /\ UNCHANGED <<argv, exit_status, db, hist, dl, pool, effects, probe>>

----------------------------------------------------------------------------
(* What the site serves for a video id: the player page, the stream        *)
(* descriptor (SMIL) and the variant playlists of the manifest             *)

\* the script elements of the page head, in document order; objects are the
\* JSON objects jsonfinder yields from the text of the element
PlayerObject(url) == [playerURL |-> TRUE, htmldesktop |-> url]
OtherObject == [playerURL |-> FALSE, htmldesktop |-> <<>>]

ReleaseUrl(video_id) == <<"//", "link/">> \o Decimal(video_id)

Page(video_id) ==
    IF video_id = 302
    THEN \* no object with a playerURL key
         << [text |-> FALSE, objects |-> <<>>],
            [text |-> TRUE, objects |-> <<OtherObject>>] >>
    ELSE IF video_id = 303
    THEN \* two script elements with a player object each
         << [text |-> TRUE, objects |-> <<OtherObject, PlayerObject(ReleaseUrl(303))>>],
            [text |-> TRUE, objects |-> <<PlayerObject(ReleaseUrl(313)),
                                          PlayerObject(ReleaseUrl(323))>>] >>
    ELSE IF video_id = 304
    THEN \* the release URL already carries its protocol prefix
         << [text |-> TRUE, objects |-> <<PlayerObject(<<"http:">> \o ReleaseUrl(304))>>] >>
    ELSE << [text |-> TRUE, objects |-> <<PlayerObject(ReleaseUrl(video_id))>>] >>

\* the video and textstream elements of the descriptor, in document order
Smil(url) ==
    LET n == url[Len(url)] IN
    IF n = "5"
    THEN [videos |-> << [form |-> "seq", title |-> <<"v", n, "b">>, src |-> <<"m3u8/", n, "b">>],
                        [form |-> "par", title |-> <<"v", n>>, src |-> <<"m3u8/", n>>] >>,
          srts |-> << <<"srt/", n>> >>]
    ELSE [videos |-> << [form |-> "par", title |-> <<"v", n>>, src |-> <<"m3u8/", n>>] >>,
          srts |-> <<>>]

\* m3u8_obj.playlists of the manifest at src
Playlists(src) ==
    LET n == src[2] IN
    IF n = "1"
    THEN << [bandwidth |-> 500, uri |-> <<"lo/", n>>],
            [bandwidth |-> 1200, uri |-> <<"hi/", n>>],
            [bandwidth |-> 800, uri |-> <<"mid/", n>>] >>
    ELSE << [bandwidth |-> 1200, uri |-> <<"hi/", n>>],
            [bandwidth |-> 1200, uri |-> <<"hi2/", n>>] >>

----------------------------------------------------------------------------
(* The resolution pipeline: save_video, lines 218-251, and                 *)
(* fetch_video_url, lines 253-267.                                         *)
(* A run of the pipeline is the sequence of its events, [op, arg], and     *)
(* whether an exception left it.                                           *)

Event(op, arg) == [op |-> op, arg |-> arg]

\* max_scan with >= for >: the scan keeps the last of the largest
RECURSIVE max_scan_last(_, _, _)
max_scan_last(playlists, best, k) ==
    IF k > Len(playlists) THEN best
    ELSE IF playlists[k].bandwidth >= playlists[best].bandwidth
         THEN max_scan_last(playlists, k, k + 1)
         ELSE max_scan_last(playlists, best, k + 1)

\* max(playlists, key=bandwidth), line 247: the scan keeps the first of the
\* largest; best is the position kept so far, k the next one to look at
RECURSIVE max_scan(_, _, _)
max_scan(playlists, best, k) ==
    IF k > Len(playlists) THEN best
    ELSE IF playlists[k].bandwidth > playlists[best].bandwidth
         THEN max_scan(playlists, k, k + 1)
         ELSE max_scan(playlists, best, k + 1)

best_quality(playlists) == playlists[max_scan(playlists, 1, 2)]

\* lines 247-248: the URI save_video hands to ffmpeg.input at line 251
stream_uri(playlists) == best_quality(playlists).uri

\* what can happen to the four transfers of one save_video call
CALL_OUTCOMES ==
    [smil : FETCH_OUTCOMES, srt : FETCH_OUTCOMES, m3u8 : BOOLEAN, ffmpeg : BOOLEAN]

Path(output_dir, title, suffix) == <<output_dir, "/">> \o title \o <<suffix>>

save_video(url, output_dir, o) ==
    LET smil_url == <<"http:">> \o url
        e1 == <<Event("fetch", smil_url)>>
    IN
    IF o.smil # "ok"
    THEN \* pycurl.error, or etree.fromstring(None) at line 221
         [raised |-> TRUE, events |-> e1]
    ELSE
    LET smil_tree == Smil(smil_url)
        video_tree == smil_tree.videos
        srt_tree == smil_tree.srts
    IN
    IF video_tree = <<>>
    THEN [raised |-> TRUE, events |-> e1]
    ELSE
    LET title == video_tree[1].title
        srt_path == Path(output_dir, title, ".srt")
        e2 == IF srt_tree = <<>> THEN e1
              ELSE e1 \o <<Event("open", srt_path), Event("fetch", srt_tree[1])>>
    IN
    IF srt_tree # <<>> /\ o.srt # "ok"
    THEN \* pycurl.error, or f.write(None) at line 242; the file stays
         [raised |-> TRUE, events |-> e2]
    ELSE
    LET e3 == IF srt_tree = <<>> THEN e2 ELSE Append(e2, Event("write", srt_path))
        video_url == video_tree[1].src
        e4 == Append(e3, Event("load", video_url))
    IN
    IF ~o.m3u8 \/ Playlists(video_url) = <<>>
    THEN [raised |-> TRUE, events |-> e4]
    ELSE
    LET output_path == Path(output_dir, title, ".mp4")
        e5 == Append(e4, Event("remux", stream_uri(Playlists(video_url))))
    IN
    IF ~o.ffmpeg
    THEN [raised |-> TRUE, events |-> e5]
    ELSE [raised |-> FALSE, events |-> Append(e5, Event("saved", output_path))]

\* first_player without the test of line 265: the first object, whatever
\* its keys
first_player_any(tag) ==
    IF tag.objects # <<>> THEN 1 ELSE 0

\* position of the first object of the element with a playerURL key, or 0
first_player(tag) ==
    IF \E k \in DOMAIN tag.objects : tag.objects[k].playerURL
    THEN CHOOSE k \in DOMAIN tag.objects :
            /\ tag.objects[k].playerURL
            /\ \A j \in 1..(k - 1) : ~tag.objects[j].playerURL
    ELSE 0

\* the number of script elements among the first k that lead to save_video
RECURSIVE player_tags(_, _)
player_tags(tags, k) ==
    IF k = 0 THEN 0
    ELSE player_tags(tags, k - 1)
         + (IF tags[k].text /\ first_player(tags[k]) # 0 THEN 1 ELSE 0)

\* the loops of lines 262-267 from script element k on; the break of line
\* 267 leaves the inner loop only
RECURSIVE scan_tags(_, _, _, _)
scan_tags(tags, k, output_dir, calls) ==
    IF k > Len(tags) THEN [raised |-> FALSE, events |-> <<>>]
    ELSE IF ~tags[k].text \/ first_player(tags[k]) = 0
         THEN scan_tags(tags, k + 1, output_dir, calls)
         ELSE LET obj == tags[k].objects[first_player(tags[k])]
                  saved == save_video(obj.htmldesktop, output_dir,
                                      calls[player_tags(tags, k)])
              IN IF saved.raised THEN saved
                 ELSE LET rest == scan_tags(tags, k + 1, output_dir, calls)
                      IN [raised |-> rest.raised, events |-> saved.events \o rest.events]

PageUrl(video_id) ==
    <<"https://www.sbs.com.au/ondemand/video/single/">> \o Decimal(video_id)
        \o <<"?context=web">>

\* the choices of what happens to the transfers of one task
TaskOutcomes(video_id) ==
    [page : FETCH_OUTCOMES,
     calls : [1..player_tags(Page(video_id), Len(Page(video_id))) -> CALL_OUTCOMES]]

fetch_video_url(video_id, output_dir, o) ==
    LET e1 == <<Event("fetch", PageUrl(video_id))>> IN
    IF o.page # "ok"
    THEN \* pycurl.error, or html.fromstring(None) at line 258
         [raised |-> TRUE, events |-> e1]
    ELSE LET run == scan_tags(Page(video_id), 1, output_dir, o.calls)
         IN [raised |-> run.raised, events |-> e1 \o run.events]

\* os.path.isdir(os.path.realpath(output_dir)), lines 353-354
OUTPUT_DIRS == {"out", "missing"}
EXISTING_DIRS == {"out"}

\* isdir that accepts every path
isdir_unchecked(output_dir) == TRUE

isdir(output_dir) == output_dir \in EXISTING_DIRS

\* the runs one task can make, over what can happen to its transfers
task_runs(video_id, output_dir) ==
    {fetch_video_url(video_id, output_dir, o) : o \in TaskOutcomes(video_id)}

\* the ids a stored title or episode can have
VIDEO_IDS ==
    {SqlInteger(SBSOnDemandMovie(MovieEntries(NumMovies)[i]).id) : i \in 1..NumMovies}
    \cup {ProgramEntries[i].id : i \in 1..NumPrograms}
    \cup UNION {{SqlInteger(e.id) : e \in Range(program_episodes(EpisodeEntries(ProgramEntries[i].id)))}
                : i \in 1..NumPrograms}

\* the runs of every task there can be
TASK_RUNS ==
    UNION {{[video_id |-> c[1], output_dir |-> c[2], run |-> r] : r \in task_runs(c[1], c[2])}
           : c \in VIDEO_IDS \X {d \in OUTPUT_DIRS : isdir(d)}}

\* the files of the output directory after the events: open creates the
\* file empty (or empties it), write and saved give it its content
RECURSIVE files_after(_, _)
files_after(files, events) ==
    IF events = <<>> THEN files
    ELSE LET ev == Head(events)
             others == {f \in files : f.path # ev.arg}
             now == IF ev.op = "open" THEN others \cup {[path |-> ev.arg, content |-> "empty"]}
                    ELSE IF ev.op \in {"write", "saved"}
                         THEN others \cup {[path |-> ev.arg, content |-> "written"]}
                         ELSE files
         IN files_after(now, Tail(events))

----------------------------------------------------------------------------
(* download: main, lines 347-358, and SBSOnDemand.download, lines 273-320 *)

\* the title fragments tried on the command line
FRAGMENTS ==
    { <<"f">>, <<"t">>, <<"E">>, <<"w">>, <<"o">>, <<"p">>, <<"s">>, <<"d">>, <<"q">> }

\* rows of a table in the order a scan gives them: by the INTEGER PRIMARY KEY
RECURSIVE titles_by_key(_)
titles_by_key(rows) ==
    IF rows = {} THEN <<>>
    ELSE LET r == CHOOSE x \in rows : \A y \in rows : x.title_id <= y.title_id
         IN <<r>> \o titles_by_key(rows \ {r})

RECURSIVE episodes_by_key(_)
episodes_by_key(rows) ==
    IF rows = {} THEN <<>>
    ELSE LET r == CHOOSE x \in rows : \A y \in rows : x.episode_id <= y.episode_id
         IN <<r>> \o episodes_by_key(rows \ {r})

\* the stored titles the WHERE clause of line 277 accepts
matching_titles(d, title) ==
    {r \in d.titles : Like(Lower(r.title), <<"%">> \o Lower(title) \o <<"%">>)}

\* select_titles with LIMIT 1
select_titles_limit_one(d, title) ==
    Take(titles_by_key(matching_titles(d, title)), 1)

\* select_titles with LIMIT MAX_RESULTS, without the row that shows there
\* are more
select_titles_no_extra_row(d, title) ==
    Take(titles_by_key(matching_titles(d, title)), MAX_RESULTS)

\* SELECT * from sbs_titles WHERE LOWER(title) LIKE ? LIMIT ?, lines 276-281
select_titles(d, title) ==
    Take(titles_by_key(matching_titles(d, title)), MAX_RESULTS + 1)

\* SELECT episode_id, title FROM sbs_tv_episodes WHERE title_id = ?, line 298
select_episodes(d, title_id) ==
    episodes_by_key({r \in d.episodes : r.title_id = title_id})

\* task_args without the + 1 of line 311: file numbers count from 0
task_args_from_zero(episodes, output_dir) ==
    [index \in DOMAIN episodes |->
        [video_id |-> episodes[index].episode_id,
         file_number |-> index - 1,
         title |-> episodes[index].title,
         total |-> Len(episodes),
         output_dir |-> output_dir]]

\* the list of lines 308-317
task_args(episodes, output_dir) ==
    [index \in DOMAIN episodes |->
        [video_id |-> episodes[index].episode_id,
         file_number |-> index,
         title |-> episodes[index].title,
         total |-> Len(episodes),
         output_dir |-> output_dir]]

\* the chunk size Pool.map gives itself: divmod(len(iterable), processes * 4),
\* rounded up
map_chunksize(n, processes) ==
    IF n % (processes * 4) = 0 THEN n \div (processes * 4)
    ELSE (n \div (processes * 4)) + 1

\* the batches Pool.map puts on the task queue: runs of chunksize positions
RECURSIVE map_chunks(_, _, _)
map_chunks(from, n, chunksize) ==
    IF from > n THEN <<>>
    ELSE <<[k \in 1..Min(chunksize, n - from + 1) |-> from + k - 1]>>
         \o map_chunks(from + chunksize, n, chunksize)

IdleWorker == [chunk |-> <<>>, running |-> 0]

\* main with the download command, up to the return of download or to the
\* call of pool.map
main_download ==
    /\ pc = "main"
    /\ \E title \in FRAGMENTS :
       \* what lines 276-281 give, once download is called
       LET found == select_titles(db, title) IN
       \E output_dir \in OUTPUT_DIRS, download_threads \in 1..MaxThreads :
         /\ argv' = [cmd |-> "download", title |-> title, output_dir |-> output_dir,
                     download_threads |-> download_threads]
         /\ IF ~isdir(output_dir)
            THEN \* sys.exit(1), line 356
                 /\ pc' = "exited"
                 /\ exit_status' = <<1>>
                 /\ dl' = NoDownload
                 /\ pool' = NoPool
                 /\ effects' = NoEffects
            ELSE
            LET results == found
                looked == [NoEffects EXCEPT !.lookups = 1]
            IN
            IF Len(results) = 0
            THEN /\ pc' = "exited"
                 /\ exit_status' = <<0>>
                 /\ dl' = [NoDownload EXCEPT !.results = results]
                 /\ pool' = NoPool
                 /\ effects' = looked
            ELSE IF Len(results) > 1
            THEN /\ pc' = "exited"
                 /\ exit_status' = <<0>>
                 /\ dl' = [NoDownload EXCEPT
                             !.results = results,
                             !.listed = [k \in 1..Min(MAX_RESULTS, Len(results)) |->
                                            results[k].title],
                             !.ellipsis = (Len(results) > MAX_RESULTS)]
                 /\ pool' = NoPool
                 /\ effects' = looked
            ELSE
            LET episodes == select_episodes(db, results[1].title_id) IN
            IF episodes = <<>>
            THEN \* line 303 calls fetch_video_url without output_dir:
                 \* TypeError before the body of the function runs
                 /\ pc' = "exited"
                 /\ exit_status' = <<1>>
                 /\ dl' = [NoDownload EXCEPT !.results = results]
                 /\ pool' = NoPool
                 /\ effects' = looked
            ELSE
            LET args == task_args(episodes, output_dir)
                chunksize == map_chunksize(Len(args), download_threads)
            IN
                 /\ pc' = "pool_map"
                 /\ UNCHANGED exit_status
                 /\ dl' = [NoDownload EXCEPT !.results = results, !.args = args]
                 /\ pool' = [processes |-> download_threads,
                             chunksize |-> chunksize,
                             taskqueue |-> map_chunks(1, Len(args), chunksize),
                             workers |-> [w \in 1..download_threads |-> IdleWorker],
                             status |-> [k \in DOMAIN args |-> "queued"]]
                 /\ effects' = looked
    /\ hist' = NoHist
    /\ sync' = NoSync
    /\ UNCHANGED <<db, committed, probe>>

\* mapstar, list(map(func, batch)): a worker process calls
\* _fetch_video_url_wrapper (lines 269-271) on the next item of its batch,
\* after taking the next batch from the task queue when it has none.  Idle
\* workers are interchangeable: the first of them takes the batch.
worker_start(w) ==
    /\ pc = "pool_map"
    /\ w \in DOMAIN pool.workers
    /\ pool.workers[w].running = 0
    /\ IF pool.workers[w].chunk # <<>>
       THEN LET k == Head(pool.workers[w].chunk) IN
            pool' = [pool EXCEPT !.workers[w].running = k, !.status[k] = "running"]
       ELSE /\ pool.taskqueue # <<>>
            /\ \A v \in 1..(w - 1) : pool.workers[v] # IdleWorker
            /\ LET k == Head(Head(pool.taskqueue)) IN
               pool' = [pool EXCEPT !.taskqueue = Tail(@),
                                    !.workers[w] = [chunk |-> Head(pool.taskqueue),
                                                    running |-> k],
                                    !.status[k] = "running"]
    /\ UNCHANGED <<pc, argv, exit_status, db, committed, sync, hist, dl, effects, probe>>

\* the call returns or raises; an exception ends list(map(...)), so the
\* items left in the batch are never called
worker_finish(w) ==
    /\ pc = "pool_map"
    /\ w \in DOMAIN pool.workers
    /\ pool.workers[w].running # 0
    /\ LET k == pool.workers[w].running
           kwargs == dl.args[k]
       IN \E t \in {x \in TASK_RUNS : x.video_id = kwargs.video_id
                                      /\ x.output_dir = kwargs.output_dir} :
            LET run == t.run IN
            /\ effects' = [effects EXCEPT
                              !.fetches = @ \cup {ev.arg : ev \in {e \in Range(run.events) : e.op = "fetch"}},
                              !.files = files_after(@, run.events)]
            /\ pool' = [pool EXCEPT
                          !.workers[w] = [chunk |-> IF run.raised THEN <<>>
                                                    ELSE Tail(pool.workers[w].chunk),
                                          running |-> 0],
                          !.status = [j \in DOMAIN pool.status |->
                                        IF j = k
                                        THEN (IF run.raised THEN "failed" ELSE "done")
                                        ELSE IF run.raised /\ j \in Range(Tail(pool.workers[w].chunk))
                                             THEN "dropped"
                                             ELSE pool.status[j]]]
    /\ UNCHANGED <<pc, argv, exit_status, db, committed, sync, hist, dl, probe>>

\* every batch has reported: pool.map returns, or raises the exception of a
\* failed batch, and main ends
pool_map_return ==
    /\ pc = "pool_map"
    /\ pool.taskqueue = <<>>
    /\ \A w \in DOMAIN pool.workers : pool.workers[w] = IdleWorker
    /\ pc' = "exited"
    /\ exit_status' = IF \E k \in DOMAIN pool.status : pool.status[k] = "failed"
                      THEN <<1>> ELSE <<0>>
    /\ UNCHANGED <<argv, db, committed, sync, hist, dl, pool, effects, probe>>

----------------------------------------------------------------------------
(* The program *)

Next ==
    \/ start
    \/ main_sync
    \/ synchronise_movies
    \/ synchronise_program_list
    \/ synchronise_program
    \/ synchronise_insert_title
    \/ synchronise_insert_episode
    \/ synchronise_commit
    \/ synchronise_return
    \/ main_download
    \/ \E w \in 1..MaxThreads : worker_start(w)
    \/ \E w \in 1..MaxThreads : worker_finish(w)
    \/ pool_map_return

Spec == Init /\ [][Next]_vars

----------------------------------------------------------------------------
(* Interrupt: the SIGINT handler installed at line 362, lines 128-130 *)

\* SIGINT reaches the main process while pool.map waits at line 320 (alone,
\* or with the worker processes of its group): the interpreter has the
\* handler to run in the main thread.  A step a worker makes between the
\* signal and its own end changes nothing the main process reads, so it is
\* taken to have happened before the signal.
sigint ==
    /\ pc = "pool_map"
    /\ pc' = "sigint_handler"
    /\ UNCHANGED <<argv, exit_status, db, committed, sync, hist, dl, pool, effects, probe>>

\* sigint_handler, lines 128-130: sys.exit(1) raises SystemExit in the main
\* thread; it leaves pool.map, download and the with statement of line 350
\* (__exit__ closes the connection) and the interpreter begins to exit
sigint_handler ==
    /\ pc = "sigint_handler"
    /\ pc' = "atexit"
    /\ db' = committed
    /\ sync' = [sync EXCEPT !.error = "SystemExit"]
    /\ UNCHANGED <<argv, exit_status, committed, hist, dl, pool, effects, probe>>

\* terminate_pool as close and join: the exit waits until the workers have
\* gone through every batch
terminate_pool_join ==
    /\ pc = "atexit"
    /\ pool.taskqueue = <<>>
    /\ \A w \in DOMAIN pool.workers : pool.workers[w] = IdleWorker
    /\ pc' = "exited"
    /\ exit_status' = <<1>>
    /\ pool' = [pool EXCEPT !.workers = <<>>]
    /\ UNCHANGED <<argv, db, committed, sync, hist, dl, effects, probe>>

\* the exit of the interpreter runs the finalizer of the Pool of line 319:
\* no worker is given another batch, every worker process still alive is
\* terminated (those the signal reached end on their own SystemExit), the
\* task a worker was executing never ends, and the process exits with the
\* status of sys.exit
terminate_pool ==
    /\ pc = "atexit"
    /\ pc' = "exited"
    /\ exit_status' = <<1>>
    /\ pool' = [pool EXCEPT
                  !.workers = <<>>,
                  !.status = [k \in DOMAIN pool.status |->
                                IF pool.status[k] = "running" THEN "killed"
                                ELSE IF \E w \in DOMAIN pool.workers :
                                           k \in Range(pool.workers[w].chunk)
                                     THEN "dropped"
                                     ELSE pool.status[k]]]
    /\ UNCHANGED <<argv, db, committed, sync, hist, dl, effects, probe>>

NextCancel ==
    \/ Next
    \/ sigint
    \/ sigint_handler
    \/ terminate_pool

\* the interpreter runs a pending handler as soon as the main thread is
\* back in the evaluation loop (the wait of pool.map is interruptible), and
\* an exiting interpreter runs its exit functions; nothing is assumed of
\* the workers or of the transfers
SpecCancel ==
    /\ Init
    /\ [][NextCancel]_vars
    /\ WF_vars(sigint_handler)
    /\ WF_vars(terminate_pool)

----------------------------------------------------------------------------
(* get_with_retry on its own: every course of MAX_RETRIES transfers *)

NotRunning ==
    /\ pc = "exited"
    /\ argv = NoArgs
    /\ exit_status = <<0>>
    /\ db = EmptyDb
    /\ committed = EmptyDb
    /\ sync = NoSync
    /\ hist = NoHist
    /\ dl = NoDownload
    /\ pool = NoPool
    /\ effects = NoEffects

InitRetry ==
    /\ NotRunning
    /\ probe \in {[fn |-> "get_with_retry", input |-> resps, output |-> <<>>, done |-> FALSE]
                    : resps \in [1..MAX_RETRIES -> RESPONSES]}

call_get_with_retry ==
    /\ probe.fn = "get_with_retry"
    /\ ~probe.done
    /\ probe' = [probe EXCEPT !.output = get_with_retry(probe.input), !.done = TRUE]
    /\ UNCHANGED <<pc, argv, exit_status, db, committed, sync, hist, dl, pool, effects>>

SpecRetry == InitRetry /\ [][call_get_with_retry]_vars

----------------------------------------------------------------------------
(* The choice of the variant playlist on its own: every list of variants *)

BANDWIDTHS == {500, 800, 1200, 2000}

\* the lists of 1 to MaxVariants variants; the URI of a variant names its
\* position in the list
VARIANT_LISTS ==
    UNION {{[k \in 1..n |-> [bandwidth |-> b[k], uri |-> <<"variant/", DIGITS[k + 1]>>]]
              : b \in [1..n -> BANDWIDTHS]} : n \in 1..MaxVariants}

InitSelect ==
    /\ NotRunning
    /\ probe \in {[fn |-> "stream_uri", input |-> playlists, output |-> <<>>, done |-> FALSE]
                    : playlists \in VARIANT_LISTS}

call_stream_uri ==
    /\ probe.fn = "stream_uri"
    /\ ~probe.done
    /\ probe' = [probe EXCEPT !.output = stream_uri(probe.input), !.done = TRUE]
    /\ UNCHANGED <<pc, argv, exit_status, db, committed, sync, hist, dl, pool, effects>>

SpecSelect == InitSelect /\ [][call_stream_uri]_vars

----------------------------------------------------------------------------
(* The id of a movie and of an episode on their own: every id string *)

ID_CHARS == {"/", "4", "7"}

\* the id strings of up to MaxIdLen characters
ID_STRINGS == UNION {[1..n -> ID_CHARS] : n \in 0..MaxIdLen}

InitIds ==
    /\ NotRunning
    /\ probe \in {[fn |-> f, input |-> id, output |-> <<>>, done |-> FALSE]
                    : f \in {"SBSOnDemandMovie", "program_episodes"}, id \in ID_STRINGS}

\* SBSOnDemandMovie(data).id for an entry of the movie feed with this id
call_SBSOnDemandMovie ==
    /\ probe.fn = "SBSOnDemandMovie"
    /\ ~probe.done
    /\ probe' = [probe EXCEPT
                   !.output = SBSOnDemandMovie([title |-> <<"m">>, id |-> probe.input]).id,
                   !.done = TRUE]
    /\ UNCHANGED <<pc, argv, exit_status, db, committed, sync, hist, dl, pool, effects>>

\* the id of the episode built from a feed with one entry with this id
call_program_episodes ==
    /\ probe.fn = "program_episodes"
    /\ ~probe.done
    /\ probe' = [probe EXCEPT
                   !.output = program_episodes(<<[title |-> <<"e">>, id |-> probe.input]>>)[1].id,
                   !.done = TRUE]
    /\ UNCHANGED <<pc, argv, exit_status, db, committed, sync, hist, dl, pool, effects>>

SpecIds == InitIds /\ [][call_SBSOnDemandMovie \/ call_program_episodes]_vars

----------------------------------------------------------------------------
(* One resolution task on its own: fetch_video_url for every stored id and *)
(* every course of its transfers                                           *)

InitTask ==
    /\ NotRunning
    /\ probe \in UNION {{[fn |-> "fetch_video_url",
                          input |-> [video_id |-> video_id, output_dir |-> "out", o |-> o],
                          output |-> <<>>, done |-> FALSE]
                           : o \in TaskOutcomes(video_id)} : video_id \in VIDEO_IDS}

call_fetch_video_url ==
    /\ probe.fn = "fetch_video_url"
    /\ ~probe.done
    /\ probe' = [probe EXCEPT
                   !.output = fetch_video_url(probe.input.video_id, probe.input.output_dir,
                                              probe.input.o),
                   !.done = TRUE]
    /\ UNCHANGED <<pc, argv, exit_status, db, committed, sync, hist, dl, pool, effects>>

SpecTask == InitTask /\ [][call_fetch_video_url]_vars

----------------------------------------------------------------------------
(* Properties *)

\* the download process at hand, running or just ended
Downloading == argv.cmd = "download"

\* the number of stored titles the fragment of the command line matches
Matches == Cardinality(matching_titles(db, argv.title))

\* C1: failure isolation in the fan-out.  When pool.map has ended, every
\* task of the batch has been called and has run to its own end, done or
\* failed: no task is left uncalled because a sibling failed.
FailureIsolation ==
    (Downloading /\ pc = "exited" /\ pool.status # <<>>)
        => \A k \in DOMAIN pool.status : pool.status[k] \in {"done", "failed"}

\* C2: a movie is resolved once.  When the fragment matches one stored title
\* and the title has no episode, download has fetched the player page of
\* the id of that title by the time the process ends.
MovieResolvedOnce ==
    (/\ Downloading
     /\ pc = "exited"
     /\ argv.output_dir \in EXISTING_DIRS
     /\ Len(dl.results) = 1
     /\ select_episodes(db, dl.results[1].title_id) = <<>>)
        => PageUrl(dl.results[1].title_id) \in effects.fetches

\* C3: the disambiguation gate.  While and after download runs for a
\* fragment that matches no stored title or more than one, no task exists,
\* nothing has been fetched, no file has been written, and the process ends
\* with status 0.
DisambiguationGate ==
    (Downloading /\ argv.output_dir \in EXISTING_DIRS /\ Matches # 1)
        => /\ pool = NoPool
           /\ dl.args = <<>>
           /\ effects.fetches = {}
           /\ effects.files = {}
           /\ pc = "exited"
           /\ exit_status = <<0>>

\* a download that found several titles and went no further
GateWitness ==
    /\ Downloading
    /\ pc = "exited"
    /\ Matches >= 2
    /\ effects.lookups = 1
    /\ Len(dl.results) >= 2

\* C4: the retry budget.  A call of get_with_retry makes at most
\* MAX_RETRIES transfers; it returns the body of the first transfer that
\* succeeds, having made no transfer after it; it returns None when none
\* succeeds; and it never ends with an exception.
RetryBudget ==
    (probe.fn = "get_with_retry" /\ probe.done)
        => LET resps == probe.input
               out == probe.output
               good == {k \in 1..MAX_RETRIES :
                           ~resps[k].curl_error /\ resps[k].code = 200}
           IN /\ out.attempts <= MAX_RETRIES
              /\ out.kind = "return"
              /\ IF good = {}
                 THEN out.value = <<>>
                 ELSE LET first == CHOOSE k \in good : \A j \in good : k <= j
                      IN out.value = <<resps[first].body>> /\ out.attempts = first

\* C5: the failure policy of sync.  Once synchronise has the program list,
\* and as long as no transfer raises, the process ends only after the loop
\* has gone through every program, and with status 0: a fetch made for one
\* program that exhausts its retries does not end the run.
SyncFailurePolicy ==
    (argv.cmd = "sync" /\ pc = "exited" /\ sync.i >= 1 /\ sync.error # "pycurl.error")
        => (sync.i > NumPrograms /\ exit_status = <<0>>)

\* every episode row of the store d refers to a title row of d
Referenced(d) ==
    \A e \in d.episodes : \E t \in d.titles : t.title_id = e.title_id

\* C6: referential integrity.  In every state, between the inserts of a
\* program as well, every episode row refers to a stored title row, in the
\* store the connection sees and in the committed one; while the episodes of
\* a program are inserted its title row is there.
ReferentialIntegrity ==
    /\ Referenced(db)
    /\ Referenced(committed)
    /\ pc = "insert_episode" => \E t \in db.titles : t.title_id = sync.p.id

\* an episode of the program at hand has been inserted, not yet committed
IntegrityWitness ==
    /\ pc = "insert_episode"
    /\ sync.e > 1
    /\ \E e \in db.episodes : e.title_id = sync.p.id
    /\ db # committed

\* no two rows of a table of d share their key
UniqueKeys(d) ==
    /\ \A r1, r2 \in d.titles : r1.title_id = r2.title_id => r1 = r2
    /\ \A r1, r2 \in d.episodes : r1.episode_id = r2.episode_id => r1 = r2

\* C7: idempotent sync.  During and after a run of synchronise that follows
\* another one and has been served no more of the catalog than the run
\* before, the store is, row for row, the store the run before left; and
\* keys are unique in every state.
IdempotentSync ==
    /\ UniqueKeys(db)
    /\ (hist.runs >= 2 /\ hist.fetched \subseteq hist.prev_fetched)
          => db = hist.prev_db

\* a second complete run after a first complete run
IdempotentWitness ==
    /\ hist.runs = 2
    /\ pc = "exited"
    /\ exit_status = <<0>>
    /\ hist.fetched = 0..NumPrograms
    /\ hist.prev_fetched = 0..NumPrograms
    /\ db.episodes # {}

\* C8: the ambiguity listing.  When the fragment matches k >= 2 stored
\* titles, the list names min(k, MAX_RESULTS) titles, each the title of a
\* matching row, and the ellipsis is there exactly when k > MAX_RESULTS.
AmbiguityListing ==
    (Downloading /\ pc = "exited" /\ argv.output_dir \in EXISTING_DIRS /\ Matches >= 2)
        => /\ Len(dl.listed) = Min(Matches, MAX_RESULTS)
           /\ \A k \in DOMAIN dl.listed :
                 \E r \in matching_titles(db, argv.title) : r.title = dl.listed[k]
           /\ dl.ellipsis <=> (Matches > MAX_RESULTS)

\* more matches than the query returns rows: MAX_RESULTS titles and the
\* ellipsis
ListingWitness ==
    /\ Downloading
    /\ pc = "exited"
    /\ Matches > MAX_RESULTS + 1
    /\ Len(dl.listed) = MAX_RESULTS
    /\ dl.ellipsis

\* C9: best-variant selection.  The URI handed to the remux sink is the URI
\* of a variant whose bandwidth no variant of the list exceeds and no
\* earlier variant of the list equals.
BestVariant ==
    (probe.fn = "stream_uri" /\ probe.done)
        => \E k \in DOMAIN probe.input :
              /\ probe.output = probe.input[k].uri
              /\ \A j \in DOMAIN probe.input :
                    probe.input[j].bandwidth <= probe.input[k].bandwidth
              /\ \A j \in 1..(k - 1) :
                    probe.input[j].bandwidth < probe.input[k].bandwidth

\* bandwidths 500, 1200, 800: the URI of the second variant
BestVariantWitness ==
    /\ probe.fn = "stream_uri"
    /\ probe.done
    /\ [k \in DOMAIN probe.input |-> probe.input[k].bandwidth] = <<500, 1200, 800>>
    /\ probe.output = probe.input[2].uri

TrailingSegment ==
    (probe.fn \in {"SBSOnDemandMovie", "program_episodes"} /\ probe.done)
        => LET s == probe.input
               id == probe.output
           IN /\ \A k \in DOMAIN id : id[k] # "/"
              /\ Len(id) <= Len(s)
              /\ \A k \in DOMAIN id : id[k] = s[Len(s) - Len(id) + k]
              /\ \/ Len(id) = Len(s)
                 \/ s[Len(s) - Len(id)] = "/"

\* an episode id with two separators: the part after the second one
TrailingSegmentWitness ==
    /\ probe.fn = "program_episodes"
    /\ probe.done
    /\ probe.input = <<"/", "4", "/", "7">>
    /\ probe.output = <<"7">>

\* a task has run: fetch_video_url has returned or raised
TaskRan == probe.fn = "fetch_video_url" /\ probe.done

\* the positions of the events of a run at which save_video starts: the
\* fetches of a stream descriptor
DescriptorFetches(events) ==
    {k \in DOMAIN events : events[k].op = "fetch" /\ events[k].arg[1] = "http:"}

\* C13: first embedded object only.  In one run of fetch_video_url, however
\* many script elements and player objects the page has, save_video is
\* started at most once.
FirstObjectOnly ==
    TaskRan => Cardinality(DescriptorFetches(probe.output.events)) <= 1

\* the stage of the pipeline an event belongs to, in the order of the
\* stages: player page, descriptor, subtitle file, manifest, remux
Stage(ev) ==
    IF ev.op = "fetch"
    THEN (IF ev.arg[1] = "https://www.sbs.com.au/ondemand/video/single/" THEN 1
          ELSE IF ev.arg[1] = "http:" THEN 2 ELSE 4)
    ELSE IF ev.op = "open" THEN 3
    ELSE IF ev.op = "write" THEN 5
    ELSE IF ev.op = "load" THEN 6
    ELSE IF ev.op = "remux" THEN 7
    ELSE 8

\* the fetches of a run that did not give a body: the events at these
\* positions are fetches the transport failed
FailedFetches(o, events) ==
    {k \in DOMAIN events :
        /\ events[k].op = "fetch"
        /\ LET call == Cardinality({j \in DescriptorFetches(events) : j <= k}) IN
           IF Stage(events[k]) = 1 THEN o.page # "ok"
           ELSE IF Stage(events[k]) = 2 THEN o.calls[call].smil # "ok"
           ELSE o.calls[call].srt # "ok"}

\* C14: stage ordering within one task.  The events of a run come in the
\* order of the stages; a remux comes after the page fetch, the descriptor
\* fetch and the manifest load of the run; and when a fetch of the run
\* fails, the run ends there with an exception and has saved no .mp4.
StageOrdering ==
    TaskRan =>
        LET events == probe.output.events
            failed == FailedFetches(probe.input.o, events)
        IN /\ \A j, k \in DOMAIN events : j < k => Stage(events[j]) < Stage(events[k])
           /\ \A k \in DOMAIN events :
                 events[k].op = "remux"
                    => \A stage \in {1, 2, 6} :
                          \E j \in 1..(k - 1) : Stage(events[j]) = stage
           /\ failed # {}
                 => /\ probe.output.raised
                    /\ failed = {Len(events)}
                    /\ \A k \in DOMAIN events : events[k].op # "saved"

\* the video element the descriptor gives when the par/video form takes
\* precedence: the first of that form, or the first of all when none has it
PreferredVideo(videos) ==
    IF \E k \in DOMAIN videos : videos[k].form = "par"
    THEN videos[CHOOSE k \in DOMAIN videos :
                    /\ videos[k].form = "par"
                    /\ \A j \in 1..(k - 1) : videos[j].form # "par"]
    ELSE videos[1]

\* C15: video element precedence.  The manifest a run loads is the src of
\* the first par/video element of the descriptor it fetched, whatever the
\* position of that element in the document, and of a seq/video element
\* only when the descriptor has no par/video element.
VideoPrecedence ==
    TaskRan =>
        LET events == probe.output.events IN
        \A k \in DOMAIN events :
            events[k].op = "load"
                => LET j == CHOOSE d \in DescriptorFetches(events) :
                                /\ d < k
                                /\ \A c \in DescriptorFetches(events) : c < k => c <= d
                   IN events[k].arg = PreferredVideo(Smil(events[j].arg).videos).src

\* the items of the batches of a task queue, in the order of the queue
RECURSIVE Flatten(_)
Flatten(batches) ==
    IF batches = <<>> THEN <<>> ELSE Head(batches) \o Flatten(Tail(batches))

\* C16: task construction.  Once download has built its pool for a title
\* with n >= 1 stored episodes, there are n task contexts; the i-th carries
\* the id and title of the i-th episode the store returned, sequence number
\* i, total n and the output directory of the command line; and the task
\* queue holds the contexts not yet taken in that same order.
TaskConstruction ==
    (Downloading /\ pool # NoPool)
        => LET episodes == select_episodes(db, dl.results[1].title_id)
               n == Len(episodes)
               queued == Flatten(pool.taskqueue)
           IN /\ n >= 1
              /\ Len(dl.args) = n
              /\ DOMAIN pool.status = 1..n
              /\ \A i \in 1..n :
                    dl.args[i] = [video_id |-> episodes[i].episode_id,
                                  file_number |-> i,
                                  title |-> episodes[i].title,
                                  total |-> n,
                                  output_dir |-> argv.output_dir]
              /\ queued = [k \in 1..Len(queued) |-> n - Len(queued) + k]
              /\ \A i \in 1..(n - Len(queued)) : pool.status[i] # "queued"
                                                   \/ \E w \in DOMAIN pool.workers :
                                                         i \in Range(pool.workers[w].chunk)

\* the pool of a title with NumEpisodes episodes, the first batch taken and
\* batches still queued
TaskConstructionWitness ==
    /\ Downloading
    /\ pc = "pool_map"
    /\ Len(dl.args) = NumEpisodes
    /\ dl.args[2].file_number = 2
    /\ pool.status[1] = "running"
    /\ pool.taskqueue # <<>>

\* the tasks of the pool a worker is executing
Executing == {k \in DOMAIN pool.status : pool.status[k] = "running"}

\* C17: exactly-once consumption and drain.  No more than download_threads
\* tasks execute at a time, a worker executes one task at a time, and when
\* download has returned or raised every submitted task has been executed,
\* to completion or to failure.
ExactlyOnceDrain ==
    (Downloading /\ pool # NoPool)
        => /\ Cardinality(Executing) <= argv.download_threads
           /\ \A k \in Executing :
                 Cardinality({w \in DOMAIN pool.workers : pool.workers[w].running = k}) = 1
           /\ pc = "exited"
                 => \A k \in DOMAIN pool.status : pool.status[k] \in {"done", "failed"}

\* no script element of the page holds an object with a playerURL key
NoPlayerObject(tags) ==
    \A k \in DOMAIN tags : \A j \in DOMAIN tags[k].objects : ~tags[k].objects[j].playerURL

\* C18: missing embedded configuration.  A task whose player page was
\* fetched and has no object with a playerURL key returns without an
\* exception, having made no fetch but that of the page and no file.
MissingEmbeddedConfig ==
    (/\ TaskRan
     /\ probe.input.o.page = "ok"
     /\ NoPlayerObject(Page(probe.input.video_id)))
        => /\ ~probe.output.raised
           /\ probe.output.events = <<Event("fetch", PageUrl(probe.input.video_id))>>
           /\ files_after({}, probe.output.events) = {}

\* the task of the id whose page has script elements and no player object
MissingConfigWitness ==
    /\ TaskRan
    /\ probe.input.o.page = "ok"
    /\ Len(Page(probe.input.video_id)) >= 2
    /\ NoPlayerObject(Page(probe.input.video_id))
    /\ ~probe.output.raised

\* the number of protocol prefixes a URL carries
Prefixes(url) == Cardinality({k \in DOMAIN url : url[k] = "http:"})

\* C19: scheme normalisation.  Every URL a run fetches for a stream
\* descriptor carries exactly one protocol prefix, whether or not the
\* release URL of the page already had one.
SchemeNormalised ==
    TaskRan =>
        \A k \in DescriptorFetches(probe.output.events) :
            Prefixes(probe.output.events[k].arg) = 1

\* the subtitle files among the files
SrtFiles(files) == {f \in files : f.path[Len(f.path)] = ".srt"}

\* C20: subtitle file only on success.  After a task, every .srt file of
\* the output directory has the body of a subtitle fetch written to it, and
\* a task with a subtitle fetch that failed has left no .srt file.
SubtitleOnlyOnSuccess ==
    TaskRan =>
        LET events == probe.output.events
            srt == SrtFiles(files_after({}, events))
        IN /\ \A f \in srt : f.content = "written"
           /\ (\E k \in FailedFetches(probe.input.o, events) : Stage(events[k]) = 4)
                 => srt = {}

\* C11: cancellation.  Once SIGINT has reached a download that waits for
\* its pool, the process ends with status 1 and no worker process is left,
\* whatever the workers do: no task in flight or queued has to end first.
Cancellation ==
    (Downloading /\ pc = "sigint_handler")
        ~> (pc = "exited" /\ exit_status = <<1>> /\ pool.workers = <<>>)

\* an interrupted download has ended: a task that was in flight was killed
\* and a batch never left the task queue
CancellationWitness ==
    /\ Downloading
    /\ pc = "exited"
    /\ exit_status = <<1>>
    /\ sync.error = "SystemExit"
    /\ pool.workers = <<>>
    /\ pool.taskqueue # <<>>
    /\ \E k \in DOMAIN pool.status : pool.status[k] = "killed"
    /\ \E k \in DOMAIN pool.status : pool.status[k] = "queued"

====
